---- MODULE Spec2Model ----
(***************************************************************************)
(* Model of the improcessor pipeline classes: improcessor.basic (the base  *)
(* pipeline) and improcessor.mask (the mask pipeline, a subclass that      *)
(* overrides apply).  One pipeline object is modelled: its fields, the     *)
(* calls made on it (set, get, apply) and what each call gives back.       *)
(***************************************************************************)
EXTENDS Integers, Sequences, FiniteSets, TLC

VARIABLES
  kind,          \* "basic" or "mask": the class of the object
  constructed,   \* FALSE when __init__ raised and no object exists
  args,          \* self.args      : the flat configuration list
  methods,       \* self.methods   : list of [operation, arguments]
  numfuncs,      \* self.numfuncs  : the step counter
  ignore_undef,  \* self.ignore_undef
  call,          \* the last call made on the object and its inputs
  ret,           \* what the last call gave back (a value or an exception)
  warnings,      \* lines printed by the last call ('Unknown option ...')
  trace,         \* the steps the last apply invoked, in order
  callerImage    \* the caller's own buffer as the last apply left it

vars == <<kind, constructed, args, methods, numfuncs, ignore_undef,
          call, ret, warnings, trace, callerImage>>

----------------------------------------------------------------------------
(* Python values that appear in a configuration list.                      *)

\* an operation token: a str, a function value, or some other object
Str(s) == [type |-> "str", name |-> s]
Fn(s)  == [type |-> "function", name |-> s]
Obj(s) == [type |-> "int", name |-> s]

\* a member of an argument tuple: an int, or a pair such as (lo, hi)
IntArg(n)     == [tag |-> "int", a |-> n, b |-> 0]
PairArg(x, y) == [tag |-> "pair", a |-> x, b |-> y]

\* longest flat configuration list the caller passes
MaxArgs == 4

\* the operation tokens the caller leaves unpaired at the end of a list of
\* odd length
TrailingTokens == { Str("clip"), Str("normalize"), Obj("42") }

\* the (operation, argument tuple) pairs the caller uses
Pairs ==
  { <<Str("clip"), <<PairArg(0, 1)>> >>,          \* 'clip', ((0,1),)
    <<Str("clip"), <<IntArg(2), IntArg(3)>> >>,   \* 'clip', (2,3)
    <<Str("normalize"), <<>> >>,                  \* 'normalize', ()
    <<Str("builtin_clip"), <<PairArg(2, 3)>> >>,  \* 'builtin_clip', ((2,3),)
    <<Str("flip"), <<IntArg(1)>> >>,              \* 'flip', (1,)
    <<Str("rectangle"),                           \* 'rectangle',
      <<PairArg(0, 0), PairArg(1, 0), IntArg(2)>> >>, \*  ((0,0),(1,0),2)
    <<Str("imresize"), <<>> >>,                   \* 'imresize', ()
    <<Fn("operator.ge"), <<IntArg(1)>> >>,        \* operator.ge, (1,)
    <<Obj("42"), <<>> >> }                        \* 42, ()

\* the flat lists of exactly n tokens: pairs, then a trailing operation
\* token when n is odd
RECURSIVE FlatLists(_)
FlatLists(n) ==
  IF n = 0 THEN { <<>> }
  ELSE IF n % 2 = 1
       THEN { l \o <<t>> : l \in FlatLists(n - 1), t \in TrailingTokens }
       ELSE { l \o <<p[1], p[2]>> : l \in FlatLists(n - 2), p \in Pairs }

Lists == UNION { FlatLists(n) : n \in 0..MaxArgs }

\* the lists the caller spreads over set's positional arguments: one
\* operation and its argument tuple
VarargLists == { a \in Lists : Len(a) = 2 }

----------------------------------------------------------------------------
(* Buffers and results.                                                    *)

None == [tag |-> "None", dtype |-> "", ndim |-> 0, data |-> <<>>]
Arr(dt, nd, d) == [tag |-> "array", dtype |-> dt, ndim |-> nd, data |-> d]

\* the inputs the caller passes to apply
Inputs ==
  { None,
    Arr("int", 2, <<0, 3>>),
    Arr("bool", 2, <<1, 0>>),
    Arr("int", 3, <<0, 3>>) }

\* what a call gives back: a raised exception (exc), or a returned buffer
\* or None (val), flag (flag) or step list (steps)
Returned(v)      == [exc |-> "none", val |-> v, flag |-> FALSE, steps |-> <<>>]
ReturnedFlag(f)  == [exc |-> "none", val |-> None, flag |-> f, steps |-> <<>>]
ReturnedSteps(m) == [exc |-> "none", val |-> None, flag |-> FALSE, steps |-> m]
Raised(e)        == [exc |-> e, val |-> None, flag |-> FALSE, steps |-> <<>>]

----------------------------------------------------------------------------
(* basic._setProcess                                                       *)

\* names of the functions defined at module level in improcessor/basic.py
function_handle_list ==
  { "builtin_clip", "builtin_normalize", "builtin_scale",
    "builtin_scaleabout" }

\* dir(cv2), as far as the caller's tokens go
cv2_names == { "flip", "rectangle" }

\* one pass of the while loop, at index ind (1-based) of the list a;
\* s holds methods, numfuncs, the warnings printed and the exception raised
setProcessIter(s, a, ind, ignore) ==
  LET tok    == a[ind]
      hasArg == ind + 1 <= Len(a)
      bind(name) ==
        IF hasArg
        THEN [s EXCEPT !.methods = Append(@, <<Str(name), a[ind + 1]>>),
                       !.numfuncs = @ + 1]
        ELSE [s EXCEPT !.exc = "IndexError"]
  IN  IF tok.type = "str" /\ tok.name \in function_handle_list
        THEN bind(tok.name)
      ELSE IF tok \in { Str("clip"), Str("scale"), Str("scaleabout") }
        THEN bind("builtin_" \o tok.name)
      ELSE IF tok = Str("normalize")
        THEN [s EXCEPT !.methods = Append(@, <<Str("builtin_normalize"), <<>> >>),
                       !.numfuncs = @ + 1]
      ELSE IF tok.type = "str" /\ tok.name \in cv2_names
        THEN bind("cv2." \o tok.name)
      ELSE IF tok.type = "str"
        THEN bind(tok.name)
      ELSE IF ~ignore
        THEN [s EXCEPT !.warnings = @ + 1]
      ELSE s

\* the while loop: ind advances by two until it passes the end of the list
RECURSIVE setProcessLoop(_, _, _, _)
setProcessLoop(s, a, ind, ignore) ==
  IF ind > Len(a) \/ s.exc # "none" THEN s
  ELSE setProcessLoop(setProcessIter(s, a, ind, ignore), a, ind + 2, ignore)

\* _setProcess on an object whose methods and numfuncs are ms and nf
setProcess(ms, nf, a, ignore) ==
  setProcessLoop([methods |-> ms, numfuncs |-> nf, warnings |-> 0,
                  exc |-> "none"], a, 1, ignore)

----------------------------------------------------------------------------
(* Construction: basic.__init__, and mask.__init__ which defers to it.     *)

NoCall == [op |-> "init", key |-> "", list |-> <<>>, flag |-> FALSE,
           image |-> None]

init(a) == setProcess(<<>>, 0, a, FALSE)

Init ==
  \E k \in {"basic", "mask"}, a \in Lists :
    LET r == init(a) IN
      /\ kind = k
      /\ constructed = (r.exc = "none")
      /\ args = a
      /\ methods = r.methods
      /\ numfuncs = r.numfuncs
      /\ ignore_undef = FALSE
      /\ call = [NoCall EXCEPT !.list = a]
      /\ ret = IF r.exc = "none" THEN Returned(None) ELSE Raised(r.exc)
      /\ warnings = r.warnings
      /\ trace = <<>>
      /\ callerImage = None

----------------------------------------------------------------------------
(* basic.set                                                               *)

\* set('ignore', v)
SetIgnore(v) ==
  /\ constructed
  /\ ignore_undef' = v
  /\ call' = [NoCall EXCEPT !.op = "set", !.key = "ignore", !.flag = v]
  /\ ret' = Returned(None)
  /\ warnings' = 0
  /\ trace' = <<>>
  /\ callerImage' = None
  /\ UNCHANGED <<kind, constructed, args, methods, numfuncs>>

\* set('processing', a): the flat list a passed as the one argument
\* set('processing', list) without 'self.numfuncs = 0': the count goes on
\* from the steps of the configuration before
SetProcessing_keepCount(a) ==
  /\ constructed
  /\ \E r \in { setProcess(<<>>, numfuncs, a, FALSE) } :
       /\ args' = a
       /\ methods' = r.methods
       /\ numfuncs' = r.numfuncs
       /\ ignore_undef' = FALSE
       /\ ret' = IF r.exc = "none" THEN Returned(None) ELSE Raised(r.exc)
       /\ warnings' = r.warnings
  /\ call' = [NoCall EXCEPT !.op = "set", !.key = "processing", !.list = a]
  /\ trace' = <<>>
  /\ callerImage' = None
  /\ UNCHANGED <<kind, constructed>>

SetProcessing(a) ==
  /\ constructed
  /\ \E r \in { setProcess(<<>>, 0, a, FALSE) } :
       /\ args' = a
       /\ methods' = r.methods
       /\ numfuncs' = r.numfuncs
       /\ ignore_undef' = FALSE
       /\ ret' = IF r.exc = "none" THEN Returned(None) ELSE Raised(r.exc)
       /\ warnings' = r.warnings
  /\ call' = [NoCall EXCEPT !.op = "set", !.key = "processing", !.list = a]
  /\ trace' = <<>>
  /\ callerImage' = None
  /\ UNCHANGED <<kind, constructed>>

\* set('processing', op1, args1, ..., opN, argsN): the list spread over the
\* positional arguments.  set takes exactly (fname, args), so every such
\* call with two or more arguments after the key is refused by the
\* interpreter before the body runs.
SetProcessingVarargs(a) ==
  /\ constructed
  /\ call' = [NoCall EXCEPT !.op = "set*", !.key = "processing", !.list = a]
  /\ ret' = Raised("TypeError: set() takes 3 positional arguments")
  /\ warnings' = 0
  /\ trace' = <<>>
  /\ callerImage' = None
  /\ UNCHANGED <<kind, constructed, args, methods, numfuncs, ignore_undef>>

\* set(key, v) with a key that is neither 'ignore' nor 'processing'
SetOther ==
  /\ constructed
  /\ call' = [NoCall EXCEPT !.op = "set", !.key = "other"]
  /\ ret' = Returned(None)
  /\ warnings' = 0
  /\ trace' = <<>>
  /\ callerImage' = None
  /\ UNCHANGED <<kind, constructed, args, methods, numfuncs, ignore_undef>>

----------------------------------------------------------------------------
(* basic.get                                                               *)

get(key) ==
  IF key = "ignore" THEN ReturnedFlag(ignore_undef)
  ELSE IF key = "processing" THEN ReturnedSteps(methods)
  ELSE Raised("UnboundLocalError: fval")

Get(key) ==
  /\ constructed
  /\ call' = [NoCall EXCEPT !.op = "get", !.key = key]
  /\ ret' = get(key)
  /\ warnings' = 0
  /\ trace' = <<>>
  /\ callerImage' = None
  /\ UNCHANGED <<kind, constructed, args, methods, numfuncs, ignore_undef>>

\* get returns self.methods itself (line 173), not a copy: the caller who
\* holds the value returned by get('processing') holds the pipeline's own
\* list.  v = get('processing'); v.pop() removes the last step from it and
\* leaves numfuncs as it was.
ViewPop ==
  /\ constructed
  /\ \/ call.op = "get" /\ call.key = "processing"
     \/ call.op = "view"
  /\ methods # <<>>
  /\ methods' = SubSeq(methods, 1, Len(methods) - 1)
  /\ call' = [NoCall EXCEPT !.op = "view", !.key = "pop"]
  /\ ret' = ReturnedSteps(methods')
  /\ warnings' = 0
  /\ trace' = <<>>
  /\ callerImage' = None
  /\ UNCHANGED <<kind, constructed, args, numfuncs, ignore_undef>>

----------------------------------------------------------------------------
(* The operations a step can name, as functions of the buffer and of the   *)
(* positional arguments that follow it.                                    *)

Min2(x, y) == IF x <= y THEN x ELSE y
Max2(x, y) == IF x >= y THEN x ELSE y

\* builtin_clip(img, limits): np.clip(img, limits[0], limits[1]), which is
\* minimum(limits[1], maximum(img, limits[0])) for every element; a bool
\* buffer clipped to int limits comes out as an int buffer
builtin_clip(img, av) ==
  IF Len(av) # 1
    THEN Raised("TypeError: builtin_clip() positional arguments")
  ELSE IF av[1].tag # "pair"
    THEN Raised("TypeError: 'int' object is not subscriptable")
  ELSE IF img.dtype = "object"
    THEN Raised("TypeError: '>=' not supported for NoneType")
  ELSE Returned(Arr(IF img.dtype = "bool" THEN "int" ELSE img.dtype, img.ndim,
         [i \in DOMAIN img.data |->
            Min2(av[1].b, Max2(img.data[i], av[1].a))]))

\* The buffers modelled hold two elements: a 2-D one has shape (1, 2) and a
\* 3-D one shape (1, 1, 2), so the minimum and maximum along axis 2 are
\* those of the two elements, and every element is one or the other.
minI(img) == Min2(img.data[1], img.data[2])
maxI(img) == Max2(img.data[1], img.data[2])

\* what builtin_normalize, builtin_scale and builtin_scaleabout do before
\* their arithmetic: bind (img, parameter) and take np.min(img, axis=2)
axis2Failure(fn, img, av) ==
  IF Len(av) # 1
    THEN Raised("TypeError: " \o fn \o "() positional arguments")
  ELSE IF img.ndim < 3
    THEN Raised("AxisError: axis 2 is out of bounds")
  ELSE IF img.dtype = "object"
    THEN Raised("TypeError: '<=' not supported for NoneType")
  ELSE Returned(None)

\* (hi - lo) * (img - minI) / (maxI - minI) + lo: the minimum goes to lo and
\* the maximum to hi; 0/0 gives nan when the buffer is constant
rescale(img, lo, hi) ==
  IF maxI(img) = minI(img)
    THEN Returned(Arr("float:nan", img.ndim, img.data))
  ELSE Returned(Arr("float", img.ndim,
         [i \in DOMAIN img.data |->
            IF img.data[i] = maxI(img) THEN hi ELSE lo]))

\* builtin_normalize(img, empty)
builtin_normalize(img, av) ==
  IF axis2Failure("builtin_normalize", img, av) # Returned(None)
    THEN axis2Failure("builtin_normalize", img, av)
  ELSE rescale(img, 0, 1)

\* builtin_scale(img, scparms)
builtin_scale(img, av) ==
  IF axis2Failure("builtin_scale", img, av) # Returned(None)
    THEN axis2Failure("builtin_scale", img, av)
  ELSE IF av[1].tag # "pair"
    THEN Raised("TypeError: 'int' object is not subscriptable")
  ELSE rescale(img, av[1].a, av[1].b)

\* builtin_scaleabout(img, scparms): the range becomes scparms[1] wide and
\* centred at scparms[0] (an even width keeps it integral)
builtin_scaleabout(img, av) ==
  IF axis2Failure("builtin_scaleabout", img, av) # Returned(None)
    THEN axis2Failure("builtin_scaleabout", img, av)
  ELSE IF av[1].tag # "pair"
    THEN Raised("TypeError: 'int' object is not subscriptable")
  ELSE rescale(img, av[1].a - av[1].b \div 2, av[1].a + av[1].b \div 2)

\* operator.ge(a, b): a >= b for every element, b an int or a pair that is
\* broadcast along the last axis
operator_ge(img, av) ==
  IF Len(av) # 1
    THEN Raised("TypeError: ge expected 2 arguments")
  ELSE IF img.dtype = "object"
    THEN Raised("TypeError: '>=' not supported for NoneType")
  ELSE Returned(Arr("bool", img.ndim,
         [i \in DOMAIN img.data |->
            IF img.data[i] >= (IF av[1].tag = "pair" /\ i = 2
                                 THEN av[1].b ELSE av[1].a)
              THEN 1 ELSE 0]))

\* cv2.flip(src, flipCode): the columns are reversed unless flipCode is 0;
\* a 3-D buffer has a single column.  cv2 takes no bool or object array.
cv2_flip(img, av) ==
  IF Len(av) # 1
    THEN Raised("TypeError: flip() positional arguments")
  ELSE IF av[1].tag # "int"
    THEN Raised("TypeError: flipCode")
  ELSE IF img.dtype \in {"bool", "object"}
    THEN Raised("TypeError: Expected Ptr<cv::UMat> for argument 'src'")
  ELSE IF img.ndim = 2 /\ av[1].a # 0
    THEN Returned(Arr(img.dtype, img.ndim, <<img.data[2], img.data[1]>>))
  ELSE Returned(img)

\* cv2.rectangle(img, pt1, pt2, color): draws into img itself and returns
\* it.  From (0,0) to (1,0) the outline covers both elements of a 2-D buffer;
\* a 3-D buffer is one pixel of two channels, which gets (color, 0).
cv2_rectangle(img, av) ==
  IF Len(av) < 3 \/ Len(av) > 6
    THEN Raised("TypeError: rectangle() positional arguments")
  ELSE IF av[1].tag # "pair" \/ av[2].tag # "pair" \/ av[3].tag # "int"
    THEN Raised("TypeError: rectangle() argument")
  ELSE IF img.dtype \in {"bool", "object"}
    THEN Raised("TypeError: Expected Ptr<cv::UMat> for argument 'img'")
  ELSE IF img.ndim = 2
    THEN Returned(Arr(img.dtype, img.ndim, <<av[3].a, av[3].a>>))
  ELSE Returned(Arr(img.dtype, img.ndim, <<av[3].a, 0>>))

\* the functions that write into the buffer they are given and return it
InPlaceNames == { "cv2.rectangle" }

\* the names eval can resolve in the scope of improcessor/basic.py
EvalNames ==
  function_handle_list \cup {"operator.ge"} \cup {"cv2." \o n : n \in cv2_names}

\* fn(img, *av) for the function named fn
callFn(fn, img, av) ==
  IF fn = "builtin_clip" THEN builtin_clip(img, av)
  ELSE IF fn = "builtin_normalize" THEN builtin_normalize(img, av)
  ELSE IF fn = "builtin_scale" THEN builtin_scale(img, av)
  ELSE IF fn = "builtin_scaleabout" THEN builtin_scaleabout(img, av)
  ELSE IF fn = "cv2.flip" THEN cv2_flip(img, av)
  ELSE IF fn = "cv2.rectangle" THEN cv2_rectangle(img, av)
  ELSE operator_ge(img, av)

\* np.copy(image); np.copy(None) is a 0-d array of dtype object
np_copy(image) ==
  IF image = None THEN Arr("object", 0, <<>>) ELSE image

----------------------------------------------------------------------------
(* basic.apply and mask.apply                                              *)

\* the body of basic.apply's for loop: eval(methods[ii][0])(imout, ...)
basicStep(m, imout) ==
  IF m[1].type # "str"
    THEN Raised("TypeError: eval() arg 1 must be a string")
  ELSE IF m[1].name \notin EvalNames
    THEN Raised("NameError: " \o m[1].name)
  ELSE IF m[2] = <<>>
    THEN callFn(m[1].name, imout, <<>>)
  ELSE callFn(m[1].name, imout, m[2])

\* the body of mask.apply's for loop: methods[ii][0](maskOut, ...)
maskStep(m, maskOut) ==
  IF m[1].type # "function"
    THEN Raised("TypeError: 'str' object is not callable")
  ELSE IF m[2] = <<>>
    THEN callFn(m[1].name, maskOut, <<>>)
  ELSE callFn(m[1].name, maskOut, m[2])

stepOf(k, m, cur) == IF k = "mask" THEN maskStep(m, cur) ELSE basicStep(m, cur)

\* for ii in range(numfuncs): st holds the running value (out), the
\* invocations made so far (trace), whether the loop has been left (done),
\* whether the running value is the caller's own buffer (alias) and what
\* has been written into the caller's buffer (wrote, None when nothing)
applyIter(k, ms, ii, st) ==
  IF ii > Len(ms)
    THEN [st EXCEPT !.out = Raised("IndexError: list index out of range"),
                    !.done = TRUE]
  ELSE LET r == stepOf(k, ms[ii], st.out.val)
           t == [ii |-> ii, op |-> ms[ii][1], args |-> ms[ii][2],
                 input |-> st.out.val, out |-> r]
           w == st.alias /\ r.exc = "none" /\ ms[ii][1].name \in InPlaceNames
       IN  [out |-> r, trace |-> Append(st.trace, t), done |-> r.exc # "none",
            alias |-> w, wrote |-> IF w THEN r.val ELSE st.wrote]

\* the for loop with the failure of a step caught and the loop carried on
RECURSIVE applyLoop_catch(_, _, _, _, _)
applyLoop_catch(k, ms, nf, ii, st) ==
  IF ii > nf THEN st
  ELSE LET n == applyIter(k, ms, ii, st)
       IN  applyLoop_catch(k, ms, nf, ii + 1,
             IF n.out.exc # "none" THEN [n EXCEPT !.out = st.out] ELSE n)

RECURSIVE applyLoop(_, _, _, _, _)
applyLoop(k, ms, nf, ii, st) ==
  IF ii > nf \/ st.done THEN st
  ELSE applyLoop(k, ms, nf, ii + 1, applyIter(k, ms, ii, st))

NoSteps(v) == [out |-> v, trace |-> <<>>, done |-> FALSE,
               alias |-> FALSE, wrote |-> None]

\* imout = image: the loop started on the caller's own buffer
loopStart_noCopy(image) == [NoSteps(Returned(image)) EXCEPT !.alias = TRUE]

\* imout = np.copy(image): the loop starts on a buffer of its own
loopStart(image) == NoSteps(Returned(np_copy(image)))

\* basic.apply with the loop started one step late
basic_apply_skipFirst(ms, nf, image) ==
  IF nf > 0
    THEN applyLoop("basic", ms, nf, 2, NoSteps(Returned(np_copy(image))))
  ELSE NoSteps(Returned(None))

\* basic.apply(image)
basic_apply(ms, nf, image) ==
  IF nf > 0
    THEN applyLoop("basic", ms, nf, 1, loopStart(image))
  ELSE NoSteps(Returned(None))

\* mask.apply without the sanity check of the input
mask_apply_noAssert(ms, nf, image) ==
  IF nf > 0
    THEN applyLoop("mask", ms, nf, 1, NoSteps(Returned(np_copy(image))))
  ELSE NoSteps(Returned(None))

\* mask.apply(mask)
mask_apply(ms, nf, image) ==
  IF nf > 0
    THEN IF image = None
           THEN NoSteps(Raised("AttributeError: 'NoneType' has no 'shape'"))
         ELSE IF ~(image.ndim = 2 /\ image.dtype = "bool")
           THEN NoSteps(Raised("AssertionError: expected a binary (H, W) mask"))
         ELSE applyLoop("mask", ms, nf, 1, loopStart(image))
  ELSE NoSteps(Returned(None))

apply(k, ms, nf, image) ==
  IF k = "mask" THEN mask_apply(ms, nf, image) ELSE basic_apply(ms, nf, image)

Apply(image) ==
  /\ constructed
  /\ \E r \in { apply(kind, methods, numfuncs, image) } :
       /\ ret' = r.out
       /\ trace' = r.trace
       /\ callerImage' = IF r.wrote = None THEN image ELSE r.wrote
  /\ call' = [NoCall EXCEPT !.op = "apply", !.image = image]
  /\ warnings' = 0
  /\ UNCHANGED <<kind, constructed, args, methods, numfuncs, ignore_undef>>

----------------------------------------------------------------------------
(* basic.post (inherited unchanged by mask)                                *)

\* the body of post is the one statement 'raise NotImplementedError'
post(image) == Raised("NotImplementedError")

Post(image) ==
  /\ constructed
  /\ call' = [NoCall EXCEPT !.op = "post", !.image = image]
  /\ ret' = post(image)
  /\ warnings' = 0
  /\ trace' = <<>>
  /\ callerImage' = image
  /\ UNCHANGED <<kind, constructed, args, methods, numfuncs, ignore_undef>>

----------------------------------------------------------------------------

Next ==
  \/ \E v \in BOOLEAN : SetIgnore(v)
  \/ \E a \in Lists : SetProcessing(a)
  \/ \E a \in VarargLists : SetProcessingVarargs(a)
  \/ SetOther
  \/ \E key \in {"ignore", "processing", "other"} : Get(key)
  \/ \E image \in Inputs : Apply(image)
  \/ \E image \in Inputs : Post(image)

Spec == Init /\ [][Next]_vars

\* the calls of the pipeline together with what a caller can do with the
\* list that get('processing') handed out
NextView ==
  \/ Next
  \/ ViewPop

SpecView == Init /\ [][NextView]_vars

----------------------------------------------------------------------------
(* Properties                                                              *)

JustApplied == constructed /\ call.op = "apply"

\* the configuration call (construction or set('processing', list)) has
\* just returned
JustConfigured ==
  /\ constructed
  /\ ret.exc = "none"
  /\ \/ call.op = "init"
     \/ call.op = "set" /\ call.key = "processing"

\* s(n-1).operation(... s0.operation(x, args0) ..., args(n-1)), written as
\* the nested application: the outermost step is applied to the value of
\* the composition of the steps before it, and a failure inside is the
\* failure of the whole
RECURSIVE Compose(_, _, _, _)
Compose(k, ms, n, x) ==
  IF n = 0 THEN Returned(x)
  ELSE LET inner == Compose(k, ms, n - 1, x)
       IN  IF inner.exc # "none" THEN inner
           ELSE IF n > Len(ms)
             THEN Raised("IndexError: list index out of range")
           ELSE stepOf(k, ms[n], inner.val)

\* the input of the last apply is an array that is not a 2-D boolean one
NotBinaryMask == call.image # None
                 /\ ~(call.image.ndim = 2 /\ call.image.dtype = "bool")

\* the last apply got as far as its loop: there are steps and, for a mask
\* pipeline, the input is a 2-D boolean array
LoopEntered ==
  /\ numfuncs > 0
  /\ kind = "mask" => (call.image # None /\ ~NotBinaryMask)

\* C1: apply of a pipeline with a non-empty step list gives what the nested
\* application of its steps to (a copy of) the input gives; the steps it
\* invokes are steps 1, 2, ... in declaration order, the first on the copy
\* of the input and each later one on the output of the step before it;
\* and when apply returns, every step has run exactly once and the value
\* returned is the output of the last step.
C1_LeftToRightComposition ==
  (JustApplied /\ LoopEntered) =>
    /\ ret = Compose(kind, methods, numfuncs, np_copy(call.image))
    /\ \A i \in 1..Len(trace) :
         /\ trace[i].ii = i
         /\ trace[i].op = methods[i][1]
         /\ trace[i].args = methods[i][2]
         /\ trace[i].input =
              IF i = 1 THEN np_copy(call.image) ELSE trace[i - 1].out.val
    /\ ret.exc = "none" =>
         /\ Len(trace) = numfuncs
         /\ ret = trace[Len(trace)].out

\* a two-step pipeline whose steps do not commute has been applied:
\* clip to (0,1) then clip to (2,3) gives 2 everywhere
C1_Witness ==
  /\ JustApplied /\ kind = "basic" /\ numfuncs = 2 /\ ret.exc = "none"
  /\ methods = << <<Str("builtin_clip"), <<PairArg(0, 1)>> >>,
                  <<Str("builtin_clip"), <<PairArg(2, 3)>> >> >>
  /\ call.image = Arr("int", 2, <<0, 3>>)
  /\ ret.val = Arr("int", 2, <<2, 2>>)

\* the (operation, arguments) pairs of a flat list, in order
PairsOf(a) == [i \in 1..(Len(a) \div 2) |-> <<a[2 * i - 1], a[2 * i]>>]

\* C2: a flat list of k pairs whose operations are all function values
\* configures exactly k steps, the i-th holding the i-th pair's operation
\* and argument tuple.
C2_CallablesBound ==
  (JustConfigured /\ Len(args) % 2 = 0
     /\ \A i \in 1..Len(PairsOf(args)) : PairsOf(args)[i][1].type = "function") =>
    /\ numfuncs = Len(PairsOf(args))
    /\ methods = PairsOf(args)

\* a token that names or is something apply can call: a function value, or
\* a string that configuration maps to a function or that eval resolves
Resolvable(tok) ==
  \/ tok.type = "function"
  \/ /\ tok.type = "str"
     /\ tok.name \in {"clip", "scale", "scaleabout", "normalize"}
                      \cup function_handle_list \cup cv2_names \cup EvalNames

\* C3: with the ignore flag false, configuration drops every pair whose
\* operation token resolves to nothing callable, keeps the other pairs in
\* their order, and prints one warning for each dropped pair.  (Stated for
\* lists without function values, which are the subject of C2.)
C3_UnresolvedDroppedWithWarning ==
  (JustConfigured /\ Len(args) % 2 = 0
     /\ \A i \in 1..Len(PairsOf(args)) : PairsOf(args)[i][1].type # "function") =>
    LET kept    == SelectSeq(PairsOf(args), LAMBDA q : Resolvable(q[1]))
        dropped == SelectSeq(PairsOf(args), LAMBDA q : ~Resolvable(q[1]))
    IN  /\ Len(methods) = Len(kept)
        /\ \A i \in 1..Len(methods) :
             i <= Len(kept) => methods[i][2] = kept[i][2]
        /\ warnings = Len(dropped)

\* C4: once set('ignore', True) has been called, a configuration prints no
\* warning.
C4_IgnoreSuppressesWarning ==
  [][(ignore_undef /\ call'.op = "set" /\ call'.key = "processing"
        /\ ret'.exc = "none")
       => warnings' = 0]_vars

\* C5: after set('processing', op1, args1, ..., opN, argsN) the step list
\* and the step count are those a freshly constructed pipeline gets from
\* the same list.
C5_VarargsReplacesSteps ==
  (constructed /\ call.op = "set*" /\ call.key = "processing") =>
    /\ methods = init(call.list).methods
    /\ numfuncs = init(call.list).numfuncs

\* C6: get('ignore') right after any set('processing', ...) call returns
\* false, and right after set('ignore', v) it returns v.
C6_IgnoreResetByReconfiguration ==
  [][(call'.op = "get" /\ call'.key = "ignore") =>
       /\ (call.op \in {"set", "set*"} /\ call.key = "processing")
            => ret'.flag = FALSE
       /\ (call.op = "set" /\ call.key = "ignore")
            => ret'.flag = call.flag]_vars

\* C7: apply returns None, raising nothing and running no step, whenever
\* the input is None or the step list is empty.
C7_AbsentInputOrEmptyPipeline ==
  (JustApplied /\ (call.image = None \/ numfuncs = 0)) =>
    /\ ret = Returned(None)
    /\ trace = <<>>

FailedPrecondition ==
  /\ ret = Raised("AssertionError: expected a binary (H, W) mask")
  /\ trace = <<>>

\* C8 as stated: for every configuration, a mask pipeline's apply on an
\* array that is not 2-D boolean fails the precondition before any step.
C8_PreconditionEveryConfiguration ==
  (JustApplied /\ kind = "mask" /\ NotBinaryMask) => FailedPrecondition

\* C8 amended: a mask pipeline with at least one step fails the
\* precondition, before any step runs, on an array that is not 2-D boolean.
C8_PreconditionWhenSteps ==
  (JustApplied /\ kind = "mask" /\ NotBinaryMask /\ numfuncs > 0)
    => FailedPrecondition

\* a mask pipeline with a step was given an integer-valued 2-D array and
\* apply raised
C8_Witness ==
  /\ JustApplied /\ kind = "mask" /\ numfuncs > 0
  /\ call.image = Arr("int", 2, <<0, 3>>)
  /\ ret.exc # "none"

\* C9: a step of apply that fails is the last step apply invokes, and its
\* failure is what the caller of apply gets, in place of any value.
C9_FailurePropagates ==
  JustApplied =>
    \A i \in 1..Len(trace) :
      trace[i].out.exc # "none" =>
        /\ i = Len(trace)
        /\ ret = trace[i].out
        /\ ret.val = None

\* on an integer array, the first of two steps failed and the second was
\* not run
C9_Witness ==
  /\ JustApplied /\ numfuncs = 2 /\ Len(trace) = 1
  /\ call.image = Arr("int", 2, <<0, 3>>)
  /\ trace[1].out.exc # "none"
  /\ ret.exc = trace[1].out.exc
  /\ Resolvable(args[3])

\* C10: construction and set('processing', list) raise nothing, whatever
\* the length of the list and the kinds of its tokens.
C10_ConfigurationNeverRaises ==
  (call.op = "init" \/ (call.op = "set" /\ call.key = "processing"))
    => ret.exc = "none"

\* C11: apply leaves the caller's input buffer as it was, also when a step
\* writes into the buffer it is given, and leaves the step list, the step
\* count, the ignore flag and the configuration list as they were; applying
\* the pipeline again to the same input gives the same result.
C11_ApplyOnlyReturns ==
  [][(call'.op = "apply") =>
       /\ callerImage' = call'.image
       /\ methods' = methods /\ numfuncs' = numfuncs
       /\ ignore_undef' = ignore_undef /\ args' = args
       /\ (call.op = "apply" /\ call.image = call'.image)
            => (ret' = ret /\ trace' = trace)]_vars

\* the first step drew into the buffer it was given, the result differs
\* from the input, and the caller's buffer still holds the input
C11_Witness ==
  /\ JustApplied /\ kind = "basic" /\ trace # <<>>
  /\ trace[1].op = Str("cv2.rectangle")
  /\ trace[1].out.exc = "none"
  /\ trace[1].out.val # call.image
  /\ callerImage = call.image

\* C12: the value get('processing') returns is a read-only view: what the
\* caller does with it changes neither the step list nor the step count;
\* and get with a key other than 'ignore' and 'processing' is an error that
\* changes no state.
C12_GetReturnsReadOnlyView ==
  [][/\ (call'.op = "view") =>
          (methods' = methods /\ numfuncs' = numfuncs)
     /\ (call'.op = "get" /\ call'.key \notin {"ignore", "processing"}) =>
          /\ ret'.exc # "none"
          /\ UNCHANGED <<args, methods, numfuncs, ignore_undef>>]_vars

\* C13: the post-processing hook of a pipeline that does not override it
\* returns its input unchanged, for every input, and raises nothing.
C13_PostReturnsInput ==
  (constructed /\ call.op = "post") =>
    /\ ret = Returned(call.image)
    /\ callerImage = call.image

\* the pipeline was configured with the single pair 'clip', (lo, hi) with
\* lo <= hi, as in testBasic.py line 31
ClipPairConfigured ==
  /\ kind = "basic"
  /\ Len(args) = 2 /\ args[1] = Str("clip")
  /\ Len(args[2]) = 2
  /\ args[2][1].tag = "int" /\ args[2][2].tag = "int"
  /\ args[2][1].a <= args[2][2].a

\* C14: a pipeline configured with the single pair (clip, (lo, hi)),
\* lo <= hi, applied to a buffer of integers does not fail and returns a
\* buffer of the same shape whose every element x is min(max(x, lo), hi).
C14_ClipPairClamps ==
  (JustApplied /\ ClipPairConfigured
     /\ call.image.tag = "array" /\ call.image.dtype = "int") =>
    ret = Returned(Arr("int", call.image.ndim,
            [i \in DOMAIN call.image.data |->
               Min2(Max2(call.image.data[i], args[2][1].a), args[2][2].a)]))

\* apply of a pipeline of kind k can invoke the operation of step m: the
\* base pipeline evaluates the name (basic.py line 193 and 195), the mask
\* pipeline calls the stored value itself (mask.py line 109 and 111)
Invocable(k, m) ==
  IF k = "mask" THEN m[1].type = "function"
  ELSE m[1].type = "str" /\ m[1].name \in EvalNames

\* C15: in every reachable state of a base or mask pipeline every step of
\* the step list references an operation that apply can resolve and call;
\* no token that resolves to nothing callable is in the step list.
C15_StepsInvocable ==
  constructed => \A i \in 1..Len(methods) : Invocable(kind, methods[i])

\* C16: after the constructor and after any sequence of set, get and apply
\* calls the step counter numfuncs equals the length of the methods list,
\* so apply never indexes past the list, and an apply that runs its loop
\* to the end has invoked every configured step.
C16_CounterMatchesSteps ==
  /\ numfuncs = Len(methods)
  /\ JustApplied =>
       /\ ret # Raised("IndexError: list index out of range")
       /\ Len(trace) <= Len(methods)
       /\ (ret.exc = "none" /\ LoopEntered) => Len(trace) = Len(methods)

\* apply ran its loop to the end on a pipeline configured with two pairs:
\* two steps counted, two steps held, two steps invoked
C16_Witness ==
  /\ JustApplied /\ kind = "basic" /\ ret.exc = "none"
  /\ numfuncs = 2 /\ Len(methods) = 2 /\ Len(trace) = 2
  /\ Len(args) = 4

====
